---- MODULE Spec2Model ----
(***************************************************************************)
(* Invoice generator: a multi-tenant invoicing application (Django) and a  *)
(* stand-alone command line script sharing an invoice value model.         *)
(*                                                                         *)
(*   companies/models.py, invoice_management/*  the web application        *)
(*   invoice_generator.py, client_manager.py    the command line script    *)
(*   invoice_models.py                          the invoice value objects  *)
(*                                                                         *)
(* Text is modelled as a sequence of one-character strings, so that        *)
(* formatting ("INV-0001") is computed character by character.  Money is   *)
(* counted in cents and percentages in hundredths of a percent.            *)
(***************************************************************************)
EXTENDS Integers, Sequences, FiniteSets, TLC

VARIABLES
    company,      \* web: the companies_company table, one row per tenant
    invoices,     \* web: the invoice table, in insertion order (pk = index)
    request,      \* web: the requests being served, one per worker
    issued,       \* web: per tenant, the numbers get_next_invoice_number
                  \*      returned, each with the stored prefix and counter
                  \*      before the call and the stored counter after it
    config_file,  \* cli: the content of config.json
    app,          \* cli: the InvoiceGenerator instance of the running process
    clients,      \* cli: the client list of the ClientManager
    cli_issued,   \* cli: history of the numbers get_next_invoice_number returned
    cli_result,   \* cli: outcome of the last command
    doc,          \* values: the invoice whose derived amounts are evaluated
    amounts,      \* values: the derived amounts, once evaluated
    response,     \* web: the last answer of a view that was no redirect
    pdf_source,   \* pdf: the content of the invoice that is rendered
    pdf,          \* pdf: the outcome of the last rendering
    templates     \* web: the invoice template table (pk = index)

saas_vars  == <<company, invoices, request, issued, response>>
cli_vars   == <<config_file, app, clients, cli_issued, cli_result>>
value_vars == <<doc, amounts>>
pdf_vars   == <<pdf_source, pdf>>
template_vars == <<templates>>
vars       == <<company, invoices, request, issued,
                config_file, app, clients, cli_issued, cli_result,
                doc, amounts, response, pdf_source, pdf, templates>>

(***************************************************************************)
(* Bounds of the model.                                                    *)
(***************************************************************************)
MaxIssued   == 3     \* allocations followed in one behaviour of the web app
MaxCliIssued == 4   \* allocations followed in one behaviour of the script
MaxEdited   == 1     \* stored invoices that differ from what they were created as

\* the current time: day 1, 10:00
Now == 34

None == "None"

Tenants == {"acme", "globex"}
\* two requests are served at the same time
Workers == {1, 2}

(***************************************************************************)
(* Text helpers.                                                           *)
(***************************************************************************)
Digits == <<"0", "1", "2", "3", "4", "5", "6", "7", "8", "9">>

RECURSIVE IntToStr(_)
\* str(n) of a non-negative integer, most significant digit first
IntToStr(n) ==
    IF n < 10 THEN <<Digits[n + 1]>>
    ELSE IntToStr(n \div 10) \o <<Digits[(n % 10) + 1]>>

RECURSIVE Zeros(_)
Zeros(k) == IF k <= 0 THEN <<>> ELSE <<"0">> \o Zeros(k - 1)

\* dict.get(key, default)
DictGet(table, key, default) ==
    IF key \in DOMAIN table THEN table[key] ELSE default

\* a variant of Format04d without the zero fill (the format ":d")
Format04d_unpadded(n) == IntToStr(n)

\* the format specification ":04d": zero fill up to a minimum width of 4
Format04d(n) == Zeros(4 - Len(IntToStr(n))) \o IntToStr(n)

(***************************************************************************)
(* The web application: companies, invoices and the requests on them.      *)
(***************************************************************************)
\* companies/models.py:75, the default of Company.invoice_prefix
DefaultPrefix == <<"I", "N", "V">>

\* the prefixes a settings form is submitted with
PrefixChoices == {DefaultPrefix, <<"X", "-", "1">>}

\* the counter of a tenant that has been issuing invoices for a long time
EstablishedCounter == 9999

STATUS_CHOICES == {"draft", "sent", "paid", "overdue", "cancelled"}

\* the status values an update request carries ("archived" is no choice)
StatusInputs == {"sent", "archived"}

\* the due dates an invoice form is submitted with (day numbers): a new
\* invoice is due on the first, an edit moves it to either
NewDueDates == {10}
DueDates == {10, 20}

\* Company(...) with the field defaults of the model
NewCompany(prefix) == [invoice_prefix |-> prefix, invoice_counter |-> 1]

IdleRequest ==
    [pc |-> "idle", kind |-> None, tenant |-> None, company |-> <<>>,
     invoice_number |-> <<>>]

\* the table holds a row for every tenant that has signed up: "globex" is
\* established, "acme" has not signed up yet
InitCompany ==
    [t \in {"globex"} |->
        [invoice_prefix |-> DefaultPrefix,
         invoice_counter |-> EstablishedCounter]]

InitSaas ==
    /\ company = InitCompany
    /\ invoices = <<>>
    /\ request = [w \in Workers |-> IdleRequest]
    /\ issued = [t \in Tenants |-> <<>>]
    /\ response = None

\* Company.get_next_invoice_number up to the save: the number formatted from
\* the fields of the in-memory object and the object after the increment
get_next_invoice_number(self) ==
    [invoice_number |->
        self.invoice_prefix \o <<"-">> \o Format04d(self.invoice_counter),
     self |-> [self EXCEPT !.invoice_counter = self.invoice_counter + 1]]

\* a variant of SaveCounter whose UPDATE is not restricted to the row of the
\* company: the counter column of every row is written
SaveCounter_every(table, t, self) ==
    [u \in DOMAIN table |->
        [table[u] EXCEPT !.invoice_counter = self.invoice_counter]]

\* self.save(update_fields=['invoice_counter']): the counter column of the
\* row of this company is written
SaveCounter(table, t, self) ==
    [table EXCEPT ![t].invoice_counter = self.invoice_counter]

\* form.save() of a ModelForm bound to the request's company object:
\* Model.save() without update_fields writes every column of the row
SaveCompany(table, t, self) == [table EXCEPT ![t] = self]

\* a variant of InvoiceNeedsNumber: every save allocates a number
InvoiceNeedsNumber_always(inv) == TRUE

\* Invoice.save: a number is allocated only for an invoice that has none
InvoiceNeedsNumber(inv) == inv.invoice_number = <<>>

\* unique_together = ['company', 'invoice_number'] of Invoice.Meta
UniqueTogether(rows, t, number) ==
    \A i \in DOMAIN rows :
        ~(rows[i].company = t /\ rows[i].invoice_number = number)

RECURSIVE SumLen(_, _)
SumLen(f, S) ==
    IF S = {} THEN 0
    ELSE LET t == CHOOSE u \in S : TRUE
         IN  Len(f[t]) + SumLen(f, S \ {t})

\* the number of allocations made so far
Allocations == SumLen(issued, Tenants)

\* signup_view / company_setup_view: the tenant's Company row is created
company_setup_view(t, prefix) ==
    /\ t \notin DOMAIN company
    /\ company' = [u \in DOMAIN company \cup {t} |->
                      IF u = t THEN NewCompany(prefix) ELSE company[u]]
    /\ UNCHANGED <<invoices, request, issued, response, cli_vars, value_vars, pdf_vars, template_vars>>

\* CompanyMiddleware.process_request: the company row of the user's tenant
\* is read once and attached to the request
process_request(w, t, kind) ==
    /\ request[w].pc = "idle"
    /\ t \in DOMAIN company
    /\ kind = "create" =>
          Allocations + Cardinality({v \in Workers :
                 request[v].pc = "view" /\ request[v].kind = "create"})
             < MaxIssued
    /\ request' = [request EXCEPT ![w] =
          [pc |-> "view", kind |-> kind, tenant |-> t,
           company |-> company[t], invoice_number |-> <<>>]]
    /\ UNCHANGED <<company, invoices, issued, response, cli_vars, value_vars, pdf_vars, template_vars>>

\* invoice_create_view with a form that does not validate: nothing is saved
invoice_create_invalid(w) ==
    /\ request[w].pc = "view"
    /\ request[w].kind = "create"
    /\ request' = [request EXCEPT ![w] = IdleRequest]
    /\ UNCHANGED <<company, invoices, issued, response, cli_vars, value_vars, pdf_vars, template_vars>>

\* invoice_create_view, Invoice.save: the new invoice has no number, so
\* get_next_invoice_number formats one from the request's company object,
\* increments that object's counter, saves the counter and returns
invoice_create_view(w) ==
    /\ request[w].pc = "view"
    /\ request[w].kind = "create"
    /\ InvoiceNeedsNumber(request[w])
    /\ LET t == request[w].tenant
           r == get_next_invoice_number(request[w].company)
       IN  /\ company' = SaveCounter(company, t, r.self)
           /\ request' = [request EXCEPT
                  ![w].pc = "insert",
                  ![w].invoice_number = r.invoice_number,
                  ![w].company = r.self]
           /\ issued' = [issued EXCEPT ![t] = Append(@,
                  [prefix |-> company[t].invoice_prefix,
                   counter |-> company[t].invoice_counter,
                   invoice_number |-> r.invoice_number,
                   stored |-> company'[t].invoice_counter])]
    /\ UNCHANGED <<invoices, response, cli_vars, value_vars, pdf_vars, template_vars>>

\* Invoice.save, super().save(): the row is inserted, unless the unique
\* constraint rejects it (IntegrityError, the request fails)
insert_invoice(w, due) ==
    /\ request[w].pc = "insert"
    /\ LET t == request[w].tenant
           n == request[w].invoice_number
       IN  IF UniqueTogether(invoices, t, n)
           THEN invoices' = Append(invoices,
                    [company |-> t, invoice_number |-> n,
                     status |-> "draft", due_date |-> due])
           ELSE invoices' = invoices
    /\ request' = [request EXCEPT ![w] = IdleRequest]
    /\ UNCHANGED <<company, issued, response, cli_vars, value_vars, pdf_vars, template_vars>>

\* company_settings_view: the form is saved onto the request's company
company_settings_view(w, prefix) ==
    /\ request[w].pc = "view"
    /\ request[w].kind = "settings"
    /\ LET t == request[w].tenant
           self == [request[w].company EXCEPT !.invoice_prefix = prefix]
       IN  company' = SaveCompany(company, t, self)
    /\ request' = [request EXCEPT ![w] = IdleRequest]
    /\ UNCHANGED <<invoices, issued, response, cli_vars, value_vars, pdf_vars, template_vars>>

\* Invoice.save of a stored invoice with the company row read for it: the
\* invoice and the company table after the save.  update_fields names the
\* columns of the invoice that are written (<<>>: all of them)
Invoice_save(inv, pk, update_fields) ==
    LET t == inv.company
        stored == invoices[pk]
        r == get_next_invoice_number(company[t])
        self == IF InvoiceNeedsNumber(inv)
                THEN [inv EXCEPT !.invoice_number = r.invoice_number]
                ELSE inv
    IN  [company |-> IF InvoiceNeedsNumber(inv)
                     THEN SaveCounter(company, t, r.self) ELSE company,
         invoice |-> IF update_fields = <<>> THEN self
                     ELSE [f \in DOMAIN stored |->
                             IF \E i \in DOMAIN update_fields :
                                   update_fields[i] = f
                             THEN self[f] ELSE stored[f]]]

\* the stored invoices, pk left aside, that were edited or moved on in status
Edited(pk) ==
    {i \in DOMAIN invoices \ {pk} :
        invoices[i].due_date \notin NewDueDates \/ invoices[i].status # "draft"}

\* a variant of get_object_or_404 that looks the invoice up by pk alone
get_object_or_404_any_company(t, pk) == pk \in DOMAIN invoices

\* get_object_or_404(Invoice, pk=pk, company=request.company): whether the
\* invoice pk exists and belongs to the company of the request (a user
\* without a company has request.company None, which owns no invoice);
\* otherwise Http404 is raised
get_object_or_404(t, pk) ==
    pk \in DOMAIN invoices /\ invoices[pk].company = t

\* the company a stored invoice belongs to
Owner(pk) == invoices[pk].company

\* the answer to a request whose invoice is not found: nothing is written
Http404 ==
    /\ response' = "not found"
    /\ UNCHANGED <<company, invoices>>

\* invoice_detail_view: the invoice of the requesting tenant is loaded and
\* shown
invoice_detail_view(t, pk) ==
    /\ IF get_object_or_404(t, pk)
       THEN /\ response' = "detail"
            /\ UNCHANGED <<company, invoices>>
       ELSE Http404
    /\ UNCHANGED <<request, issued, cli_vars, value_vars, pdf_vars, template_vars>>

\* invoice_edit_view: the invoice of the requesting tenant is loaded, the
\* form fields are set, the invoice is saved and the answer is a redirect
\* to the detail page
invoice_edit_view(t, pk, due) ==
    /\ IF get_object_or_404(t, pk)
       THEN /\ Cardinality(Edited(pk)) < MaxEdited
            /\ LET r == Invoice_save([invoices[pk] EXCEPT !.due_date = due],
                                     pk, <<>>)
               IN  /\ invoices' = [invoices EXCEPT ![pk] = r.invoice]
                   /\ company' = r.company
            /\ invoices' # invoices
            /\ UNCHANGED response
       ELSE Http404
    /\ UNCHANGED <<request, issued, cli_vars, value_vars, pdf_vars, template_vars>>

\* a variant of ValidStatus that accepts every value
ValidStatus_any(new_status) == TRUE

\* new_status in dict(Invoice.STATUS_CHOICES)
ValidStatus(new_status) == new_status \in STATUS_CHOICES

\* invoice_status_update: a status among the choices is stored with
\* save(update_fields=['status']) and answered with success, any other
\* value is answered with failure
invoice_status_update(t, pk, new_status) ==
    /\ IF ~get_object_or_404(t, pk) THEN Http404
       ELSE /\ Cardinality(Edited(pk)) < MaxEdited
            /\ IF ValidStatus(new_status)
               THEN LET r == Invoice_save(
                                [invoices[pk] EXCEPT !.status = new_status],
                                pk, <<"status">>)
                    IN  /\ invoices' = [invoices EXCEPT ![pk] = r.invoice]
                        /\ company' = r.company
                        /\ response' = "success"
               ELSE /\ UNCHANGED <<invoices, company>>
                    /\ response' = "failure"
    /\ UNCHANGED <<request, issued, cli_vars, value_vars, pdf_vars, template_vars>>

\* the handlers that read or write the company row
CompanyHandlers ==
    \/ \E t \in Tenants, p \in PrefixChoices : company_setup_view(t, p)
    \/ \E w \in Workers : invoice_create_invalid(w)
    \/ \E w \in Workers : invoice_create_view(w)
    \/ \E w \in Workers, d \in NewDueDates : insert_invoice(w, d)
    \/ \E w \in Workers, p \in PrefixChoices : company_settings_view(w, p)

\* the handlers that work on a stored invoice, requested by its tenant
InvoiceHandlers ==
    \/ \E pk \in DOMAIN invoices, d \in DueDates :
          invoice_edit_view(Owner(pk), pk, d)
    \/ \E pk \in DOMAIN invoices, st \in StatusInputs \cap STATUS_CHOICES :
          invoice_status_update(Owner(pk), pk, st)

\* a request is served by the first worker that is free
FirstIdle(w) == \A v \in Workers : v < w => request[v].pc # "idle"

\* the worker that serves a tenant when each tenant's requests arrive one
\* after another
TenantWorker == [t \in Tenants |-> IF t = "acme" THEN 1 ELSE 2]

\* requests arrive at any time, also two for one tenant
NextSaas ==
    \/ \E w \in Workers, t \in Tenants, k \in {"create", "settings"} :
          FirstIdle(w) /\ process_request(w, t, k)
    \/ CompanyHandlers

\* the requests of one tenant arrive one after another; the requests of
\* different tenants are served at the same time
NextTenants ==
    \/ \E t \in Tenants, k \in {"create", "settings"} :
          process_request(TenantWorker[t], t, k)
    \/ CompanyHandlers
    \/ InvoiceHandlers

\* the status values sent with the update requests
StatusRequests == StatusInputs \cup {"draft", "paid"}

\* tenants sign up, their invoices are created one after another and the
\* status of a stored invoice is updated
NextStatus ==
    \/ \E t \in Tenants, p \in PrefixChoices : company_setup_view(t, p)
    \/ \E t \in Tenants : process_request(TenantWorker[t], t, "create")
    \/ \E w \in Workers : invoice_create_view(w)
    \/ \E w \in Workers, d \in NewDueDates : insert_invoice(w, d)
    \/ \E pk \in DOMAIN invoices, st \in StatusRequests :
          invoice_status_update(Owner(pk), pk, st)

(***************************************************************************)
(* The command line script: one InvoiceGenerator instance per process,     *)
(* its configuration in config.json and the clients of its ClientManager.  *)
(***************************************************************************)
MaxRuns    == 3     \* processes started in one behaviour
MaxClients == 2     \* clients added in one behaviour

\* the tax rates entered in the business setup, in hundredths of a percent
SetupTaxInputs == {0, 800}

\* the names and email addresses a client is added with
ClientNames  == {"", "Ann"}
ClientEmails == {"", "ann@example.com"}

\* invoice_generator.py:30-37, default_config (the counter and the tax rate)
default_config == [invoice_counter |-> 1, default_tax_rate |-> 0]

\* the file of a fresh installation does not exist: <<>>; else <<content>>
InitCli ==
    /\ config_file = <<>>
    /\ app = <<>>
    /\ clients = <<>>
    /\ cli_issued = <<>>
    /\ cli_result = None

\* InvoiceGenerator.load_config: the configuration a new instance starts
\* with, and the file it leaves (the defaults are written when it is missing)
load_config(file) ==
    IF file = <<>>
    THEN [config |-> default_config, file |-> <<default_config>>]
    ELSE [config |-> file[1], file |-> file]

\* a variant of save_config that does not write the file
save_config_lost(file, config) == file

\* InvoiceGenerator.save_config: the file after the dump of the configuration
save_config(file, config) == <<config>>

\* a variant of get_next_invoice_number that leaves the counter as it is
cli_get_next_invoice_number_keep(config) ==
    [invoice_num |-> <<"I", "N", "V", "-">> \o Format04d(config.invoice_counter),
     config |-> config]

\* InvoiceGenerator.get_next_invoice_number up to the save
cli_get_next_invoice_number(config) ==
    [invoice_num |-> <<"I", "N", "V", "-">> \o Format04d(config.invoice_counter),
     config |-> [config EXCEPT !.invoice_counter = config.invoice_counter + 1]]

\* all the numbers returned so far, over all processes, in order
RECURSIVE Flatten(_)
Flatten(runs) ==
    IF runs = <<>> THEN <<>> ELSE Head(runs) \o Flatten(Tail(runs))

\* main, app = InvoiceGenerator(): a process starts and loads the file
InvoiceGenerator_init ==
    /\ app = <<>>
    /\ Len(cli_issued) < MaxRuns
    /\ LET r == load_config(config_file)
       IN  /\ app' = <<[config |-> r.config]>>
           /\ config_file' = r.file
    /\ cli_issued' = Append(cli_issued, <<>>)
    /\ cli_result' = "started"
    /\ UNCHANGED <<clients, saas_vars, value_vars, pdf_vars, template_vars>>

\* the process ends
cli_exit ==
    /\ app # <<>>
    /\ app' = <<>>
    /\ cli_result' = "exited"
    /\ UNCHANGED <<config_file, clients, cli_issued, saas_vars, value_vars, pdf_vars, template_vars>>

\* InvoiceGenerator.get_next_invoice_number
get_next_invoice_number_cli ==
    /\ app # <<>>
    /\ Len(Flatten(cli_issued)) < MaxCliIssued
    /\ LET r == cli_get_next_invoice_number(app[1].config)
           k == Len(cli_issued)
       IN  /\ app' = <<[config |-> r.config]>>
           /\ config_file' = save_config(config_file, r.config)
           /\ cli_issued' = [cli_issued EXCEPT ![k] = Append(@,
                  [counter |-> app[1].config.invoice_counter,
                   invoice_num |-> r.invoice_num,
                   stored |-> config_file'[1].invoice_counter])]
    /\ cli_result' = "number"
    /\ UNCHANGED <<clients, saas_vars, value_vars, pdf_vars, template_vars>>

\* InvoiceGenerator.setup_business: the tax rate is replaced when the input
\* is a number (float() does not raise), and the configuration is saved
setup_business(tax, is_number) ==
    /\ app # <<>>
    /\ LET config == IF is_number
                     THEN [app[1].config EXCEPT !.default_tax_rate = tax]
                     ELSE app[1].config
       IN  /\ app' = <<[config |-> config]>>
           /\ config_file' = save_config(config_file, config)
    /\ cli_result' = "setup"
    /\ UNCHANGED <<clients, cli_issued, saas_vars, value_vars, pdf_vars, template_vars>>

\* "CL-" and the number with the format ":03d"
Format03d(n) == Zeros(3 - Len(IntToStr(n))) \o IntToStr(n)

\* the number in a client id "CL-NNN"
ClientIdNumber(id) ==
    LET d == SubSeq(id, 4, Len(id))
    IN  CHOOSE n \in 0..(MaxClients + 2) : IntToStr(n) = d \/ Format03d(n) = d

RECURSIVE MaxIdNumber(_)
MaxIdNumber(cs) ==
    IF cs = <<>> THEN 0
    ELSE LET m == MaxIdNumber(Tail(cs))
             n == ClientIdNumber(Head(cs).id)
         IN  IF n > m THEN n ELSE m

\* ClientManager.generate_client_id
generate_client_id(cs) ==
    IF cs = <<>> THEN <<"C", "L", "-", "0", "0", "1">>
    ELSE <<"C", "L", "-">> \o Format03d(MaxIdNumber(cs) + 1)

\* a variant of AddClient that appends the client before it validates it
AddClient_append_first(cs, name, email) ==
    [clients |-> Append(cs,
                   [id |-> generate_client_id(cs), name |-> name,
                    email |-> email, is_active |-> TRUE,
                    created_date |-> Now, last_modified |-> Now]),
     error |-> name = "" \/ email = ""]

\* ClientManager.add_client on the list cs: the id is generated, the
\* required fields are validated (ValueError), the defaults are filled in
\* and the client is appended; the list after the call and whether it raised
AddClient(cs, name, email) ==
    IF name = "" \/ email = ""
    THEN [clients |-> cs, error |-> TRUE]
    ELSE [clients |-> Append(cs,
                        [id |-> generate_client_id(cs), name |-> name,
                         email |-> email, is_active |-> TRUE,
                         created_date |-> Now, last_modified |-> Now]),
          error |-> FALSE]

\* ClientManager.add_client with a dict: a client without a name or an
\* email is refused (ValueError), else it is appended and the list saved
add_client(name, email) ==
    /\ app # <<>>
    /\ Len(clients) < MaxClients
    /\ LET r == AddClient(clients, name, email)
       IN  /\ clients' = r.clients
           /\ cli_result' = IF r.error THEN "ValueError" ELSE "added"
    /\ UNCHANGED <<config_file, app, cli_issued, saas_vars, value_vars, pdf_vars, template_vars>>

\* ClientManager.list_clients(active_only=True)
list_clients(cs) == SelectSeq(cs, LAMBDA c : c.is_active)

\* InvoiceGenerator.create_invoice_interactive: without clients it returns;
\* with clients the list of dicts is printed with client.name, which raises
\* AttributeError before a number is allocated
create_invoice_interactive ==
    /\ app # <<>>
    /\ cli_result' = IF list_clients(clients) = <<>>
                     THEN "No clients found" ELSE "AttributeError"
    /\ cli_result' # cli_result
    /\ UNCHANGED <<config_file, app, clients, cli_issued, saas_vars, value_vars, pdf_vars, template_vars>>

\* the ids a caller names a client with
ClientIds == {<<"C", "L", "-">> \o Format03d(n) : n \in 1..(MaxClients + 1)}

\* the updates a caller passes to update_client: a new email address, alone
\* or together with an id or with a date of creation
UpdateChoices ==
    {[email |-> "bob@example.com"], [email |-> "ann@example.com"]}
    \cup {[id |-> i, email |-> "bob@example.com"] : i \in ClientIds}
    \cup {[created_date |-> 0, email |-> "bob@example.com"]}

\* a variant of Protected that lets every field of the updates through
Protected_none(updates) == updates

\* update_client, protected_fields: id and created_date are dropped from
\* the updates
Protected(updates) ==
    [f \in DOMAIN updates \ {"id", "created_date"} |-> updates[f]]

\* dict.update
DictUpdate(client, updates) ==
    [f \in DOMAIN client \cup DOMAIN updates |->
        IF f \in DOMAIN updates THEN updates[f] ELSE client[f]]

\* updates['last_modified'] = datetime.now().isoformat()
Stamped(updates, now) ==
    [f \in DOMAIN updates \cup {"last_modified"} |->
        IF f = "last_modified" THEN now ELSE updates[f]]

\* ClientManager.update_client: the first client with the id is updated and
\* the list saved (True); without such a client nothing happens (False)
update_client(client_id, updates) ==
    /\ app # <<>>
    /\ IF \E i \in DOMAIN clients : clients[i].id = client_id
       THEN LET i == CHOOSE k \in DOMAIN clients :
                        /\ clients[k].id = client_id
                        /\ \A j \in 1..(k - 1) : clients[j].id # client_id
            IN  /\ clients' = [clients EXCEPT
                       ![i] = DictUpdate(@, Stamped(Protected(updates), Now))]
                /\ cli_result' = "updated"
       ELSE /\ clients' = clients
            /\ cli_result' = "not found"
    /\ UNCHANGED <<config_file, app, cli_issued, saas_vars, value_vars, pdf_vars, template_vars>>

\* ClientManager.delete_client: the first client with the id is marked
\* inactive and the list saved (True); else nothing happens (False)
delete_client(client_id) ==
    /\ app # <<>>
    /\ IF \E i \in DOMAIN clients : clients[i].id = client_id
       THEN LET i == CHOOSE k \in DOMAIN clients :
                        /\ clients[k].id = client_id
                        /\ \A j \in 1..(k - 1) : clients[j].id # client_id
            IN  /\ clients' = [clients EXCEPT ![i].is_active = FALSE,
                                               ![i].last_modified = Now]
                /\ cli_result' = "deleted"
       ELSE /\ clients' = clients
            /\ cli_result' = "not found"
    /\ UNCHANGED <<config_file, app, cli_issued, saas_vars, value_vars, pdf_vars, template_vars>>

\* the formats export_clients and import_clients are called with
Formats == {"json", "csv", "xml"}

\* ClientManager.export_clients: json and csv give the text of the list,
\* any other format raises ValueError
export_clients(format) ==
    /\ app # <<>>
    /\ cli_result' = IF format \in {"json", "csv"} THEN "exported"
                     ELSE "ValueError: Unsupported export format"
    /\ UNCHANGED <<config_file, app, clients, cli_issued, saas_vars, value_vars, pdf_vars, template_vars>>

\* the client lists handed to import_clients
RECURSIVE ImportData(_)
ImportData(n) ==
    IF n = 0 THEN {<<>>}
    ELSE LET shorter == ImportData(n - 1)
         IN  shorter \cup
             {Append(l, [name |-> nm, email |-> e]) :
                 l \in shorter, nm \in ClientNames, e \in ClientEmails}

\* the loop of import_clients: every entry goes through add_client, the
\* first ValueError ends the loop and leaves what was added before it
RECURSIVE ImportLoop(_, _)
ImportLoop(cs, data) ==
    IF data = <<>> THEN [clients |-> cs, error |-> FALSE]
    ELSE LET r == AddClient(cs, Head(data).name, Head(data).email)
         IN  IF r.error THEN r ELSE ImportLoop(r.clients, Tail(data))

\* ClientManager.import_clients: data is the list of entries that the text
\* holds; a json text that json.loads cannot parse (parses = FALSE) raises
\* ValueError before any entry is read
import_clients(data, format, parses) ==
    /\ app # <<>>
    /\ Len(clients) + Len(data) <= MaxClients
    /\ IF format = "json" /\ ~parses
       THEN /\ clients' = clients
            /\ cli_result' = "ValueError: Invalid JSON data"
       ELSE IF format \in {"json", "csv"}
       THEN LET r == ImportLoop(clients, data)
            IN  /\ clients' = r.clients
                /\ cli_result' = IF r.error
                                 THEN "import_clients: ValueError"
                                 ELSE "imported"
       ELSE /\ clients' = clients
            /\ cli_result' = "ValueError: Unsupported import format"
    /\ UNCHANGED <<config_file, app, cli_issued, saas_vars, value_vars, pdf_vars, template_vars>>

\* The result of a query is a list of dict objects.  An object is either a
\* copy (ref = <<>>) or the stored dict itself, named by its place in the
\* client list (ref = <<i>>).
Copies(cs, places) ==
    [k \in DOMAIN places |-> [ref |-> <<>>, value |-> cs[places[k]]]]

Shared(cs, places) ==
    [k \in DOMAIN places |-> [ref |-> <<places[k]>>, value |-> cs[places[k]]]]

\* the places of the client list, in order, whose client is kept by a test
\* (keep[k] tells whether the client at place k is)
Places(cs, keep) ==
    SelectSeq([k \in DOMAIN cs |-> k], LAMBDA k : keep[k])

\* the first place of a list of places, if there is one
First(places) == IF places = <<>> THEN <<>> ELSE <<places[1]>>

\* the texts a client is searched by, and query in field.lower()
Queries == {"ann", "bob", "cl-"}
Contains(field, query) ==
    \/ query = "ann" /\ field \in {"Ann", "ann@example.com"}
    \/ query = "bob" /\ field \in {"bob@example.com"}

\* ClientManager.get_client: client.copy() of the first client with the id
get_client(cs, client_id) ==
    Copies(cs, First(Places(cs, [k \in DOMAIN cs |-> cs[k].id = client_id])))

\* ClientManager.get_client_by_email: client.copy() of the first client with
\* the address; the addresses of the model are in lower case
get_client_by_email(cs, email) ==
    Copies(cs, First(Places(cs, [k \in DOMAIN cs |-> cs[k].email = email])))

\* ClientManager.list_clients with the parameter active_only: a new list of
\* the stored dicts that are active, or self.clients.copy(), a new list of
\* all stored dicts
list_clients_active_only(cs, active_only) ==
    IF active_only
    THEN Shared(cs, Places(cs, [k \in DOMAIN cs |-> cs[k].is_active]))
    ELSE Shared(cs, Places(cs, [k \in DOMAIN cs |-> TRUE]))

\* ClientManager.search_clients: client.copy() of every client one of whose
\* fields holds the query (the id holds "cl-")
search_clients(cs, query, active_only) ==
    Copies(cs, Places(cs,
        [k \in DOMAIN cs |->
            /\ active_only => cs[k].is_active
            /\ \/ Contains(cs[k].name, query)
               \/ Contains(cs[k].email, query)
               \/ query = "cl-"]))

\* the results of the query operations for the arguments of a caller
QueryResults(cs) ==
    {get_client(cs, i) : i \in ClientIds}
    \cup {get_client_by_email(cs, e) :
             e \in {"ann@example.com", "bob@example.com"}}
    \cup {list_clients_active_only(cs, a) : a \in BOOLEAN}
    \cup {search_clients(cs, q, a) : q \in Queries, a \in BOOLEAN}

\* a caller sets is_active to False in a dict of a query result: a stored
\* dict is changed in the list of the manager, a copy is the caller's own
modify_result(result, k) ==
    /\ app # <<>>
    /\ k \in DOMAIN result
    /\ clients' = IF result[k].ref = <<>> THEN clients
                  ELSE [clients EXCEPT ![result[k].ref[1]].is_active = FALSE]
    /\ cli_result' = "result modified"
    /\ UNCHANGED <<config_file, app, cli_issued, saas_vars, value_vars, pdf_vars, template_vars>>

\* the operations of the ClientManager
NextClients ==
    \/ InvoiceGenerator_init
    \/ cli_exit
    \/ \E n \in ClientNames, e \in ClientEmails : add_client(n, e)
    \/ \E i \in ClientIds, u \in UpdateChoices : update_client(i, u)
    \/ \E i \in ClientIds : delete_client(i)
    \/ \E f \in Formats : export_clients(f)
    \/ \E d \in ImportData(MaxClients), f \in Formats, p \in BOOLEAN :
          import_clients(d, f, p)
    \/ \E r \in QueryResults(clients), k \in 1..MaxClients :
          modify_result(r, k)

NextCli ==
    \/ InvoiceGenerator_init
    \/ cli_exit
    \/ get_next_invoice_number_cli
    \/ \E tax \in SetupTaxInputs, ok \in BOOLEAN : setup_business(tax, ok)
    \/ \E n \in ClientNames, e \in ClientEmails : add_client(n, e)
    \/ create_invoice_interactive

(***************************************************************************)
(* The invoice values: line items, derived amounts, the overdue test.      *)
(* Quantities are counted in hundredths, rates and amounts in cents, tax   *)
(* and discount percentages in hundredths of a percent, datetimes in hours *)
(* and dates in days.                                                      *)
(***************************************************************************)
MaxItems == 2       \* line items of an invoice

\* the line items an invoice is made of: 1.00 x 100.00, 1.50 x 1.75 (the
\* product 2.625 lies halfway between two cents), 0.33 x 9.99
ItemChoices ==
    {[quantity |-> 100, rate |-> 10000],
     [quantity |-> 150, rate |-> 175],
     [quantity |-> 33, rate |-> 999]}

TaxRates  == {0, 800, 825}      \* 0%, 8%, 8.25%
Discounts == {0, 1000, 1250}    \* 0%, 10%, 12.5%

\* due dates of the dataclass invoice (datetimes): day 0 12:00, day 1 00:00,
\* day 1 20:00, day 2 00:00
DueDateTimes == {12, 24, 44, 48}

\* due dates of the stored invoice (dates)
DueDays == {0, 1, 2}

\* the status values of a dataclass invoice
DataclassStatuses == {"pending", "draft", "paid", "cancelled"}

\* datetime.date()
DateOf(datetime) == datetime \div 24

RECURSIVE ItemLists(_)
\* the lists of at most n line items
ItemLists(n) ==
    IF n = 0 THEN {<<>>}
    ELSE LET shorter == ItemLists(n - 1)
         IN  shorter \cup {Append(l, i) : l \in shorter, i \in ItemChoices}

\* the invoice values handed to the value model: a dataclass Invoice as the
\* script and the PDF view build it, or the fields of a submitted invoice
\* form together with the status of the stored invoice
InitValues ==
    /\ doc \in
          [model : {"dataclass"}, items : ItemLists(MaxItems),
           tax_rate : TaxRates, discount_percentage : Discounts,
           status : DataclassStatuses, due_date : DueDateTimes]
          \cup
          [model : {"django"}, items : ItemLists(MaxItems),
           tax_rate : TaxRates, discount_percentage : Discounts,
           status : STATUS_CHOICES, due_date : DueDays]
    /\ amounts = <<>>

\* round(x, 2) of a float x = n/d cents: the nearest cent; when the decimal
\* value lies halfway, the binary value of x decides between the two
\* neighbours, so either can be the result
RoundFloat(n, d) ==
    LET q == n \div d
        r == n % d
    IN  IF 2 * r < d THEN {q}
        ELSE IF 2 * r > d THEN {q + 1}
        ELSE {q, q + 1}

\* a variant of Quantize that cuts the digits after the cent (ROUND_DOWN)
Quantize_down(n, d) == n \div d

\* Decimal.quantize(Decimal('0.01')) of n/d cents: the nearest cent, a value
\* halfway goes to the even neighbour (ROUND_HALF_EVEN, the default context)
Quantize(n, d) ==
    LET q == n \div d
        r == n % d
    IN  IF 2 * r < d THEN q
        ELSE IF 2 * r > d THEN q + 1
        ELSE IF q % 2 = 0 THEN q ELSE q + 1

RECURSIVE SeqSum(_)
\* sum(...)
SeqSum(s) == IF s = <<>> THEN 0 ELSE Head(s) + SeqSum(Tail(s))

RECURSIVE FloatItemTotals(_)
\* invoice_models.InvoiceItem.total of every item: the lists of totals that
\* round(quantity * rate, 2) can give
FloatItemTotals(items) ==
    IF items = <<>> THEN {<<>>}
    ELSE {<<t>> \o rest :
            t \in RoundFloat(Head(items).quantity * Head(items).rate, 100),
            rest \in FloatItemTotals(Tail(items))}

\* invoice_management.models.InvoiceItem.total of every item
DecimalItemTotals(items) ==
    [i \in DOMAIN items |-> Quantize(items[i].quantity * items[i].rate, 100)]

\* a variant of is_overdue that compares the datetimes, not their dates
dataclass_is_overdue_datetime(d, now) ==
    d.due_date < now /\ d.status = "pending"

\* invoice_models.Invoice.is_overdue
dataclass_is_overdue(d, now) ==
    DateOf(d.due_date) < DateOf(now) /\ d.status = "pending"

\* invoice_management.models.Invoice.is_overdue
django_is_overdue(d, now) ==
    d.due_date < DateOf(now) /\ d.status \in {"sent"}

\* the properties of the dataclass Invoice are read
evaluate_dataclass ==
    /\ amounts = <<>>
    /\ doc.model = "dataclass"
    /\ \E totals \in FloatItemTotals(doc.items) :
          LET subtotal == SeqSum(totals)
          IN  \E discount_amount \in
                    RoundFloat(subtotal * doc.discount_percentage, 10000) :
                LET subtotal_after_discount == subtotal - discount_amount
                IN  \E tax_amount \in
                          RoundFloat(subtotal_after_discount * doc.tax_rate,
                                     10000) :
                      amounts' = <<[item_totals |-> totals,
                          subtotal |-> subtotal,
                          discount_amount |-> discount_amount,
                          subtotal_after_discount |-> subtotal_after_discount,
                          tax_amount |-> tax_amount,
                          total |-> subtotal_after_discount + tax_amount,
                          is_overdue |-> dataclass_is_overdue(doc, Now)]>>
    /\ UNCHANGED <<doc, saas_vars, cli_vars, pdf_vars, template_vars>>

\* the invoice form is saved (InvoiceForm has no discount field, so a
\* submitted discount is dropped) and the properties of the stored Invoice
\* are read
evaluate_django ==
    /\ amounts = <<>>
    /\ doc.model = "django"
    /\ LET totals == DecimalItemTotals(doc.items)
           subtotal == SeqSum(totals)
           tax_amount == Quantize(subtotal * doc.tax_rate, 10000)
       IN  amounts' = <<[item_totals |-> totals,
               subtotal |-> subtotal,
               tax_amount |-> tax_amount,
               total |-> subtotal + tax_amount,
               is_overdue |-> django_is_overdue(doc, Now)]>>
    /\ UNCHANGED <<doc, saas_vars, cli_vars, pdf_vars, template_vars>>

NextValues ==
    \/ evaluate_dataclass
    \/ evaluate_django

(***************************************************************************)
(* The PDF generator: the story of a document, section by section.  Dates  *)
(* are day numbers; an optional string is a sequence of at most one        *)
(* string, <<>> standing for None.                                         *)
(***************************************************************************)
\* the line items of a rendered invoice: 1.00 x 100.00 and 1.50 x 1.75
PdfItemChoices ==
    {[description |-> "Design", quantity |-> 100, unit |-> "each",
      rate |-> 10000],
     [description |-> "Hosting", quantity |-> 150, unit |-> "hour",
      rate |-> 175]}

RECURSIVE PdfItemLists(_)
\* the lists of at most n line items
PdfItemLists(n) ==
    IF n = 0 THEN {<<>>}
    ELSE LET shorter == PdfItemLists(n - 1)
         IN  shorter \cup {Append(l, i) : l \in shorter, i \in PdfItemChoices}

\* datetime.now().date() at the time a document is rendered
RenderDays == {5, 10, 12}

\* the issue dates of a rendered invoice
IssueDays == {-10, 5, 10, 12}

\* notes and payment_terms of a rendered invoice; notes that are None are
\* treated like empty notes wherever they are read, "" stands for both
NotesChoices == {"", "Thank you"}
TermsChoices == {<<>>, <<"">>, <<"Net 30">>}

\* the number of an invoice handed to the generator directly
PdfInvoiceNumber == DefaultPrefix \o <<"-">> \o Format04d(7)

\* Invoice(...) objects of invoice_models handed to the generator by a
\* caller; the dates are date objects or, as the dataclass declares them,
\* datetime objects
PdfInvoices ==
    [origin : {"api"}, invoice_number : {PdfInvoiceNumber},
     items : PdfItemLists(MaxItems),
     issue_date : IssueDays, due_date : NewDueDates,
     dates : {"date", "datetime"},
     tax_rate : {0, 825}, discount_percentage : {0, 1000},
     notes : NotesChoices, payment_terms : TermsChoices,
     status : {"pending", "paid"}]

InitPdf ==
    /\ pdf_source \in PdfInvoices
    /\ pdf = <<>>

\* bool(s) of an optional string: None and "" are false
Truthy(s) == s # <<>> /\ s[1] # ""

\* _add_header: the title and the number of the invoice
add_header(invoice) ==
    [section |-> "header", title |-> "INVOICE",
     invoice_number |-> invoice.invoice_number]

\* a variant of add_invoice_details that counts the days from the issue date
add_invoice_details_issue(invoice, today) ==
    [section |-> "details",
     issue_date |-> invoice.issue_date, due_date |-> invoice.due_date,
     status_row |->
        IF invoice.due_date < today
        THEN <<[text |-> "OVERDUE", days |-> today - invoice.issue_date]>>
        ELSE <<>>]

\* _add_invoice_details: the two dates and, when the due date lies before
\* today, the status row OVERDUE (N days)
add_invoice_details(invoice, today) ==
    [section |-> "details",
     issue_date |-> invoice.issue_date, due_date |-> invoice.due_date,
     status_row |->
        IF invoice.due_date < today
        THEN <<[text |-> "OVERDUE", days |-> today - invoice.due_date]>>
        ELSE <<>>]

\* _add_company_client_info
add_company_client_info(invoice) == [section |-> "company_client_info"]

\* the units a line item is given: units of the abbreviation table, units
\* that are not in it, a capitalised unit, a unit between blanks, and none
UnitChoices ==
    {"hour", "hours", "pieces", "each", "kg", "litre", "Widget", "Hours",
     " kg ", ""}

\* str.strip() and str.lower() on the units above
strip(unit) == IF unit = " kg " THEN "kg" ELSE unit
lower(unit) ==
    CASE unit = "Hours" -> "hours"
      [] unit = "Widget" -> "widget"
      [] OTHER -> unit

unit_display_map ==
    [hour |-> "hr", hours |-> "hrs", day |-> "day", days |-> "days",
     piece |-> "pc", pieces |-> "pcs", each |-> "each", item |-> "item",
     unit |-> "unit", box |-> "box", kg |-> "kg", lb |-> "lb",
     meter |-> "m", foot |-> "ft", inch |-> "in"]

\* the unit column: the unit without surrounding blanks ("each" when nothing
\* is left), replaced by its abbreviation when its lower case is in the table
UnitDisplay(unit) ==
    LET unit_formatted ==
           IF unit # "" /\ strip(unit) # "" THEN strip(unit) ELSE "each"
    IN  DictGet(unit_display_map, lower(unit_formatted), unit_formatted)

\* a variant of QtyDisplay that writes every quantity with two decimals
QtyDisplay_2f(quantity) ==
    IntToStr(quantity \div 100) \o <<".">>
    \o Zeros(2 - Len(IntToStr(quantity % 100))) \o IntToStr(quantity % 100)

\* the quantity column: str(int(quantity)) when quantity.is_integer(), else
\* the format ".2f"; quantities are counted in hundredths
QtyDisplay(quantity) ==
    IF quantity % 100 = 0 THEN IntToStr(quantity \div 100)
    ELSE IntToStr(quantity \div 100) \o <<".">>
         \o Zeros(2 - Len(IntToStr(quantity % 100)))
         \o IntToStr(quantity % 100)

\* a variant of add_items_table that lists the items last to first
add_items_table_reversed(invoice, totals) ==
    [section |-> "items_table",
     header |-> <<"Description", "Qty", "Unit", "Rate", "Amount">>,
     rows |-> [i \in DOMAIN invoice.items |->
                 LET j == Len(invoice.items) + 1 - i
                 IN  [description |-> invoice.items[j].description,
                      quantity |-> QtyDisplay(invoice.items[j].quantity),
                      unit |-> UnitDisplay(invoice.items[j].unit),
                      rate |-> invoice.items[j].rate,
                      amount |-> totals[j]]]]

\* _add_items_table: the header row and one row for every item
add_items_table(invoice, totals) ==
    [section |-> "items_table",
     header |-> <<"Description", "Qty", "Unit", "Rate", "Amount">>,
     rows |-> [i \in DOMAIN invoice.items |->
                 [description |-> invoice.items[i].description,
                  quantity |-> QtyDisplay(invoice.items[i].quantity),
                  unit |-> UnitDisplay(invoice.items[i].unit),
                  rate |-> invoice.items[i].rate,
                  amount |-> totals[i]]]]

\* _add_invoice_summary: subtotal = sum(item.total), tax_amount = subtotal *
\* (tax_rate / 100), total = subtotal + tax_amount; shown_tax and shown_total
\* are the cents that the format .2f makes of tax_amount and of total
add_invoice_summary(invoice, totals, shown_tax, shown_total) ==
    [section |-> "summary",
     rows |-> <<[label |-> "Subtotal", amount |-> SeqSum(totals)]>>
              \o (IF invoice.tax_rate > 0
                  THEN <<[label |-> "Tax", amount |-> shown_tax]>>
                  ELSE <<>>)
              \o <<[label |-> "Total", amount |-> shown_total]>>]

\* a variant of add_payment_terms that asks for receipt only when the due
\* date lies before the issue date
add_payment_terms_before(invoice) ==
    LET days_to_pay == invoice.due_date - invoice.issue_date
    IN  [section |-> "payment_terms",
         text |-> IF Truthy(invoice.payment_terms)
                     THEN invoice.payment_terms[1]
                  ELSE IF days_to_pay < 0 THEN "Payment due upon receipt"
                  ELSE IF days_to_pay <= 15 THEN "Payment due within N days"
                  ELSE "Payment due within N days of invoice date",
         days |-> IF Truthy(invoice.payment_terms) \/ days_to_pay < 0
                     THEN <<>>
                  ELSE <<days_to_pay>>]

\* _add_payment_terms: the payment terms of the invoice or, when it has
\* none, terms derived from its dates; days is the N of the derived text
add_payment_terms(invoice) ==
    LET days_to_pay == invoice.due_date - invoice.issue_date
    IN  [section |-> "payment_terms",
         text |-> IF Truthy(invoice.payment_terms)
                     THEN invoice.payment_terms[1]
                  ELSE IF days_to_pay <= 0 THEN "Payment due upon receipt"
                  ELSE IF days_to_pay <= 15 THEN "Payment due within N days"
                  ELSE "Payment due within N days of invoice date",
         days |-> IF Truthy(invoice.payment_terms) \/ days_to_pay <= 0
                     THEN <<>>
                  ELSE <<days_to_pay>>]

\* _add_notes_section
add_notes_section(invoice) == [section |-> "notes", text |-> invoice.notes]

\* _add_footer
add_footer == [section |-> "footer"]

\* the story that generate_invoice hands to doc.build
generate_invoice_story(invoice, today, totals, shown_tax, shown_total) ==
    <<add_header(invoice),
      add_invoice_details(invoice, today),
      add_company_client_info(invoice),
      add_items_table(invoice, totals),
      add_invoice_summary(invoice, totals, shown_tax, shown_total),
      add_payment_terms(invoice)>>
    \o (IF invoice.notes # "" THEN <<add_notes_section(invoice)>> ELSE <<>>)
    \o <<add_footer>>

\* a variant of advanced_features_story that always adds the notes section
advanced_features_story_notes(invoice, today, totals, shown_tax, shown_total) ==
    <<add_header(invoice),
      add_invoice_details(invoice, today),
      add_company_client_info(invoice),
      add_items_table(invoice, totals),
      add_invoice_summary(invoice, totals, shown_tax, shown_total),
      add_payment_terms(invoice),
      add_notes_section(invoice),
      add_footer>>

\* the story that generate_invoice_with_advanced_features hands to doc.build
advanced_features_story(invoice, today, totals, shown_tax, shown_total) ==
    <<add_header(invoice),
      add_invoice_details(invoice, today),
      add_company_client_info(invoice),
      add_items_table(invoice, totals),
      add_invoice_summary(invoice, totals, shown_tax, shown_total),
      add_payment_terms(invoice)>>
    \o (IF invoice.notes # "" THEN <<add_notes_section(invoice)>> ELSE <<>>)
    \o <<add_footer>>

\* the comparison and the difference of a datetime due date and
\* datetime.now().date() raise TypeError
DatesRaise(invoice) == invoice.dates = "datetime"

\* a variant of ReturnValue: the path computed before the build is handed to
\* the caller also when a statement raised
ReturnValue_always(raised, filepath) == <<filepath>>

\* return filepath: reached only when no statement before it raised
ReturnValue(raised, filepath) == IF raised THEN <<>> ELSE <<filepath>>

\* what a call of a generator leaves behind: the story that was built into
\* the file and the path the caller receives; build_ok tells whether
\* doc.build could write the file
Rendering(generator, invoice, today, build_ok, watermark, story) ==
    LET raised == DatesRaise(invoice) \/ ~build_ok
    IN  [generator |-> generator,
         today |-> today,
         ok |-> ~raised,
         error |-> IF DatesRaise(invoice) THEN "TypeError"
                   ELSE IF ~build_ok THEN "OSError" ELSE None,
         filepath |-> ReturnValue(raised,
                         [invoice_number |-> invoice.invoice_number,
                          day |-> today]),
         watermark |-> ~raised /\ watermark,
         story |-> IF raised THEN <<>> ELSE story]

\* the amounts a rendering can show: the totals of the items as round()
\* gives them, and tax_amount and total as the format .2f rounds them
ShownAmounts(invoice) ==
    UNION {LET subtotal == SeqSum(totals)
           IN  {[totals |-> totals, tax |-> tax, total |-> total] :
                  tax \in RoundFloat(subtotal * invoice.tax_rate, 10000),
                  total \in RoundFloat(subtotal * 10000
                                       + subtotal * invoice.tax_rate, 10000)}
           : totals \in FloatItemTotals(invoice.items)}

\* PDFInvoiceGenerator.generate_invoice, called with an Invoice object
generate_invoice(today, build_ok) ==
    /\ pdf_source.origin = "api"
    /\ pdf = <<>>
    /\ \E a \in ShownAmounts(pdf_source) :
          pdf' = <<Rendering("generate_invoice", pdf_source, today, build_ok,
                      FALSE,
                      generate_invoice_story(pdf_source, today, a.totals,
                                             a.tax, a.total))>>
    /\ UNCHANGED <<pdf_source, saas_vars, cli_vars, value_vars, template_vars>>

\* PDFInvoiceGenerator.generate_invoice_with_advanced_features
generate_invoice_with_advanced_features(today, build_ok, add_watermark) ==
    /\ pdf_source.origin = "api"
    /\ pdf = <<>>
    /\ \E a \in ShownAmounts(pdf_source) :
          pdf' = <<Rendering("generate_invoice_with_advanced_features",
                      pdf_source, today, build_ok,
                      add_watermark /\ pdf_source.due_date < today,
                      advanced_features_story(pdf_source, today, a.totals,
                                              a.tax, a.total))>>
    /\ UNCHANGED <<pdf_source, saas_vars, cli_vars, value_vars, template_vars>>

\* Invoice(...) objects of one line item, with the quantities 1, 1.50, 0.05
\* and 12 and with units of every kind
UnitInvoices ==
    [origin : {"api"}, invoice_number : {PdfInvoiceNumber},
     items : {<<[description |-> "Design", quantity |-> q, unit |-> u,
                 rate |-> 10000]>> :
                q \in {100, 150, 5, 1200}, u \in UnitChoices},
     issue_date : {5}, due_date : NewDueDates, dates : {"date"},
     tax_rate : {0}, discount_percentage : {0},
     notes : {""}, payment_terms : {<<>>}, status : {"pending"}]

InitUnits ==
    /\ pdf_source \in UnitInvoices
    /\ pdf = <<>>

\* the generator is called with an Invoice object
NextPdf ==
    \/ \E today \in RenderDays, build_ok \in BOOLEAN :
          generate_invoice(today, build_ok)
    \/ \E today \in RenderDays, build_ok \in BOOLEAN, w \in BOOLEAN :
          generate_invoice_with_advanced_features(today, build_ok, w)

\* the columns and related rows of a stored invoice that the view reads
\* besides its number and its due date
StoredContents ==
    [items : PdfItemLists(MaxItems), issue_date : {5, 10},
     tax_rate : {825}, notes : NotesChoices]

\* invoice_pdf_view: the stored invoice is converted to an Invoice object of
\* invoice_models (status, discount and payment terms are not passed and
\* keep their defaults), rendered and served; one document is followed
invoice_pdf_view(t, pk, content, today, build_ok) ==
    /\ pdf = <<>>
    /\ IF ~get_object_or_404(t, pk) THEN Http404 /\ UNCHANGED pdf_vars
       ELSE LET pdf_invoice ==
                   [origin |-> "view",
                    invoice_number |-> invoices[pk].invoice_number,
                    items |-> content.items,
                    issue_date |-> content.issue_date,
                    due_date |-> invoices[pk].due_date,
                    dates |-> "date",
                    tax_rate |-> content.tax_rate,
                    discount_percentage |-> 0,
                    notes |-> content.notes,
                    payment_terms |-> <<>>,
                    status |-> "pending"]
            IN  /\ pdf_source' = pdf_invoice
                /\ \E a \in ShownAmounts(pdf_invoice) :
                      pdf' = <<Rendering("generate_invoice", pdf_invoice,
                                  today, build_ok, FALSE,
                                  generate_invoice_story(pdf_invoice, today,
                                      a.totals, a.tax, a.total))>>
                /\ response' = IF build_ok THEN "document" ELSE "error"
                /\ UNCHANGED <<company, invoices>>
    /\ UNCHANGED <<request, issued, cli_vars, value_vars, template_vars>>

\* invoices are created, marked as sent and rendered
NextRender ==
    \/ \E t \in Tenants : process_request(TenantWorker[t], t, "create")
    \/ \E w \in Workers : invoice_create_view(w)
    \/ \E w \in Workers, d \in NewDueDates : insert_invoice(w, d)
    \/ \E pk \in DOMAIN invoices :
          invoice_status_update(Owner(pk), pk, "sent")
    \/ \E pk \in DOMAIN invoices, c \in StoredContents,
          today \in {5, 12}, build_ok \in BOOLEAN :
          invoice_pdf_view(Owner(pk), pk, c, today, build_ok)

\* the stored columns a document is rendered from in the requests below
ScopeContents ==
    {c \in StoredContents :
        Len(c.items) = 1 /\ c.issue_date = 5 /\ c.notes = ""}

\* the first invoice of a tenant whose company row is row, as
\* invoice_create_view stores it, with the row and the record of the
\* allocation
FirstInvoice(t, row) ==
    LET r == get_next_invoice_number(row)
    IN  [row |-> r.self,
         invoice |-> [company |-> t, invoice_number |-> r.invoice_number,
                      status |-> "draft", due_date |-> 10],
         issued |-> [prefix |-> row.invoice_prefix,
                     counter |-> row.invoice_counter,
                     invoice_number |-> r.invoice_number,
                     stored |-> r.self.invoice_counter]]

\* the first invoice of every tenant; "acme" has signed up with the
\* default prefix
FirstInvoices ==
    [t \in Tenants |->
        FirstInvoice(t, IF t \in DOMAIN InitCompany THEN InitCompany[t]
                        ELSE NewCompany(DefaultPrefix))]

\* both tenants have signed up and each has created its first invoice
ScopeStart ==
    /\ company = [t \in Tenants |-> FirstInvoices[t].row]
    /\ invoices = <<FirstInvoices["acme"].invoice,
                    FirstInvoices["globex"].invoice>>
    /\ request = [w \in Workers |-> IdleRequest]
    /\ issued = [t \in Tenants |-> <<FirstInvoices[t].issued>>]

InitScope == ScopeStart /\ response = None

\* the users of both tenants request the detail page, an edit, a status
\* update or the document of any stored invoice, their own or not
NextScope ==
    \/ \E t \in Tenants, pk \in DOMAIN invoices : invoice_detail_view(t, pk)
    \/ \E t \in Tenants, pk \in DOMAIN invoices, d \in DueDates :
          invoice_edit_view(t, pk, d)
    \/ \E t \in Tenants, pk \in DOMAIN invoices, st \in StatusInputs :
          invoice_status_update(t, pk, st)
    \/ \E t \in Tenants, pk \in DOMAIN invoices, c \in ScopeContents,
          build_ok \in BOOLEAN :
          invoice_pdf_view(t, pk, c, 12, build_ok)

(***************************************************************************)
(* The currency display: symbol tables and format_amount.  A text is a     *)
(* sequence of characters; the signs outside ASCII are written by name     *)
(* ("euro", "pound", "yen", "rupee").  Amounts handed to format_amount are *)
(* counted in thousandths.                                                 *)
(***************************************************************************)
\* currency_symbols of invoice_models.Invoice.get_currency_symbol
InvoiceCurrencySymbols ==
    [USD |-> <<"$">>, EUR |-> <<"euro">>, GBP |-> <<"pound">>,
     CAD |-> <<"C", "$">>, AUD |-> <<"A", "$">>, JPY |-> <<"yen">>]

\* currency_symbols of companies.models.Company.get_currency_symbol
CompanyCurrencySymbols ==
    [USD |-> <<"$">>, EUR |-> <<"euro">>, GBP |-> <<"pound">>,
     CAD |-> <<"C", "$">>, AUD |-> <<"A", "$">>,
     CHF |-> <<"C", "H", "F">>, SEK |-> <<"k", "r">>, NOK |-> <<"k", "r">>,
     DKK |-> <<"k", "r">>, JPY |-> <<"yen">>, CNY |-> <<"yen">>,
     INR |-> <<"rupee">>, SGD |-> <<"S", "$">>, HKD |-> <<"H", "K", "$">>,
     BRL |-> <<"R", "$">>, MXN |-> <<"$">>, NZD |-> <<"N", "Z", "$">>,
     ZAR |-> <<"R">>]

\* the currency codes an invoice or a company is given; "XXX" is no code of
\* either table
CurrencyCodes == DOMAIN CompanyCurrencySymbols \cup {"XXX"}

\* the amounts that are formatted: 0, 12.34, 999.995, 1234.565, 1234567.891
FormatAmounts == {0, 12340, 999995, 1234565, 1234567891}

\* Invoice.get_currency_symbol
invoice_get_currency_symbol(currency) ==
    DictGet(InvoiceCurrencySymbols, currency, <<"$">>)

\* Company.get_currency_symbol
company_get_currency_symbol(currency) ==
    DictGet(CompanyCurrencySymbols, currency, <<"$">>)

RECURSIVE Grouped(_)
\* the format "," of a non-negative integer: groups of three digits
Grouped(n) ==
    IF n < 1000 THEN IntToStr(n)
    ELSE Grouped(n \div 1000) \o <<",">>
         \o Zeros(3 - Len(IntToStr(n % 1000))) \o IntToStr(n % 1000)

\* the format ",.2f" of an amount that was rounded to cents
FormatCents(cents) ==
    Grouped(cents \div 100) \o <<".">>
    \o Zeros(2 - Len(IntToStr(cents % 100))) \o IntToStr(cents % 100)

InitFormat ==
    /\ doc \in [model : {"format_amount", "company_symbol"},
                currency : CurrencyCodes, amount : FormatAmounts]
    /\ amounts = <<>>

\* Invoice.format_amount: f"{symbol}{amount:,.2f}"
format_amount ==
    /\ amounts = <<>>
    /\ doc.model = "format_amount"
    /\ \E cents \in RoundFloat(doc.amount, 10) :
          amounts' = <<[text |-> invoice_get_currency_symbol(doc.currency)
                                 \o FormatCents(cents)]>>
    /\ UNCHANGED <<doc, saas_vars, cli_vars, pdf_vars, template_vars>>

\* Company.get_currency_symbol is read
get_currency_symbol ==
    /\ amounts = <<>>
    /\ doc.model = "company_symbol"
    /\ amounts' = <<[text |-> company_get_currency_symbol(doc.currency)]>>
    /\ UNCHANGED <<doc, saas_vars, cli_vars, pdf_vars, template_vars>>

NextFormat ==
    \/ format_amount
    \/ get_currency_symbol

(***************************************************************************)
(* The invoice templates of the companies.                                 *)
(***************************************************************************)
MaxTemplates == 3   \* templates created in one behaviour

TemplateNames == {"Classic", "Modern"}

\* a variant of ClearDefaults whose filter leaves out the company
ClearDefaults_every(rows, t, pk) ==
    [p \in DOMAIN rows |->
        IF rows[p].is_default /\ p # pk
        THEN [rows[p] EXCEPT !.is_default = FALSE] ELSE rows[p]]

\* InvoiceTemplate.objects.filter(company=self.company, is_default=True)
\* .exclude(pk=self.pk).update(is_default=False); pk 0 is the pk of an
\* object that is not stored yet
ClearDefaults(rows, t, pk) ==
    [p \in DOMAIN rows |->
        IF rows[p].company = t /\ rows[p].is_default /\ p # pk
        THEN [rows[p] EXCEPT !.is_default = FALSE] ELSE rows[p]]

\* InvoiceTemplate(company, name, is_default).save(): the other defaults of
\* the company are cleared when the new template is the default, then the
\* row is inserted, unless unique_together = ['company', 'name'] rejects it
template_create(t, name, is_default) ==
    /\ t \in DOMAIN company
    /\ Len(templates) < MaxTemplates
    /\ LET cleared == IF is_default THEN ClearDefaults(templates, t, 0)
                      ELSE templates
       IN  templates' =
              IF \A p \in DOMAIN templates :
                    ~(templates[p].company = t /\ templates[p].name = name)
              THEN Append(cleared,
                      [company |-> t, name |-> name,
                       is_default |-> is_default])
              ELSE cleared
    /\ UNCHANGED <<saas_vars, cli_vars, value_vars, pdf_vars>>

\* template.is_default = ...; template.save() of a stored template
template_update(pk, is_default) ==
    /\ pk \in DOMAIN templates
    /\ LET t == templates[pk].company
           cleared == IF is_default THEN ClearDefaults(templates, t, pk)
                      ELSE templates
       IN  templates' = [cleared EXCEPT ![pk].is_default = is_default]
    /\ UNCHANGED <<saas_vars, cli_vars, value_vars, pdf_vars>>

\* tenants sign up and save templates
NextTemplates ==
    \/ \E t \in Tenants, p \in PrefixChoices : company_setup_view(t, p)
    \/ \E t \in Tenants, n \in TemplateNames, d \in BOOLEAN :
          template_create(t, n, d)
    \/ \E pk \in DOMAIN templates, d \in BOOLEAN : template_update(pk, d)

(***************************************************************************)
(* The specifications.                                                     *)
(***************************************************************************)
\* a component that is not running
IdleCli == InitCli
IdleValues == doc = [model |-> None] /\ amounts = <<>>
IdlePdf == pdf_source = [origin |-> None] /\ pdf = <<>>
IdleTemplates == templates = <<>>

Init == InitSaas /\ IdleCli /\ IdleValues /\ IdlePdf /\ IdleTemplates

InitCliSpec == InitCli /\ InitSaas /\ IdleValues /\ IdlePdf /\ IdleTemplates

InitValuesSpec == InitValues /\ InitSaas /\ IdleCli /\ IdlePdf /\ IdleTemplates

InitPdfSpec == InitPdf /\ InitSaas /\ IdleCli /\ IdleValues /\ IdleTemplates

InitUnitsSpec == InitUnits /\ InitSaas /\ IdleCli /\ IdleValues
    /\ IdleTemplates

InitFormatSpec == InitFormat /\ InitSaas /\ IdleCli /\ IdlePdf /\ IdleTemplates

InitScopeSpec == InitScope /\ IdleCli /\ IdleValues /\ IdlePdf
    /\ IdleTemplates

\* the web application, requests arriving at any time
Next == NextSaas

Spec == Init /\ [][Next]_vars

\* the web application, the requests of one tenant one after another
SpecTenants == Init /\ [][NextTenants]_vars

\* the web application, creation and status updates of invoices
SpecStatus == Init /\ [][NextStatus]_vars

\* the command line script
SpecCli == InitCliSpec /\ [][NextCli]_vars

\* the client manager of the command line script
SpecClients == InitCliSpec /\ [][NextClients]_vars

\* the invoice values
SpecValues == InitValuesSpec /\ [][NextValues]_vars

\* the PDF generator called with an Invoice object
SpecPdf == InitPdfSpec /\ [][NextPdf]_vars

\* the web application, invoices created and rendered
SpecRender == Init /\ [][NextRender]_vars

\* the PDF generator called with invoices of one line item
SpecUnits == InitUnitsSpec /\ [][NextPdf]_vars

\* the currency display
SpecFormat == InitFormatSpec /\ [][NextFormat]_vars

\* the web application, the templates of the companies
SpecTemplates == Init /\ [][NextTemplates]_vars

\* the web application, requests that name any stored invoice
SpecScope == InitScopeSpec /\ [][NextScope]_vars

(***************************************************************************)
(* Properties of the invoice numbering of the web application.             *)
(***************************************************************************)
\* the requests that hold a number and have not stored their invoice yet
Holding(t) ==
    {w \in Workers : request[w].pc = "insert" /\ request[w].tenant = t}

\* C1: two invoice creations of one tenant that run at the same time never
\* receive the same invoice number from get_next_invoice_number.
C1_ConcurrentNumbersDiffer ==
    \A t \in Tenants : \A v, w \in Holding(t) :
        v # w => request[v].invoice_number # request[w].invoice_number

\* text helpers of the properties: the value of a string of decimal digits
DigitValue(c) == CHOOSE d \in 0..9 : Digits[d + 1] = c

IsDigit(c) == \E d \in 0..9 : Digits[d + 1] = c

RECURSIVE DigitsValue(_)
DigitsValue(s) ==
    IF s = <<>> THEN 0
    ELSE 10 * DigitsValue(SubSeq(s, 1, Len(s) - 1)) + DigitValue(s[Len(s)])

\* number is prefix, "-", and the counter in decimal, filled with zeros on
\* the left up to 4 digits and not beyond
IsNumberOf(number, prefix, counter) ==
    LET k == Len(prefix)
        d == SubSeq(number, k + 2, Len(number))
    IN  /\ Len(number) >= k + 5
        /\ SubSeq(number, 1, k) = prefix
        /\ number[k + 1] = "-"
        /\ \A i \in DOMAIN d : IsDigit(d[i])
        /\ DigitsValue(d) = counter
        /\ Len(d) > 4 => d[1] # "0"

\* the tenants that sign up in the course of a behaviour
NewTenants == Tenants \ DOMAIN InitCompany

\* C5: an allocation returns the tenant's prefix, a hyphen and the counter
\* before the increment, zero-padded to at least 4 digits; the counter of a
\* new tenant starts at 1, so its first invoice number is prefix-0001.
C5_NumberFormat ==
    /\ \A t \in Tenants : \A i \in DOMAIN issued[t] :
          IsNumberOf(issued[t][i].invoice_number, issued[t][i].prefix,
                     issued[t][i].counter)
    /\ \A t \in NewTenants :
          /\ (t \in DOMAIN company /\ issued[t] = <<>>)
                => company[t].invoice_counter = 1
          /\ issued[t] # <<>> =>
                issued[t][1].invoice_number =
                    issued[t][1].prefix \o <<"-", "0", "0", "0", "1">>

\* C5 witness: the new tenant got its first number and the established
\* tenant got a number of five digits
C5_Witness ==
    /\ issued["acme"] # <<>>
    /\ \E i \in DOMAIN issued["globex"] :
          /\ issued["globex"][i].counter = 10000
          /\ Len(issued["globex"][i].invoice_number)
                = Len(issued["globex"][i].prefix) + 6

\* everything the script has returned so far, in the order of the calls
CliHistory == Flatten(cli_issued)

\* C2: the numbers allocated one after another are pairwise distinct and
\* their counters rise by exactly one from each allocation to the next.
C2_SequentialNumbers ==
    /\ \A i \in 1..(Len(CliHistory) - 1) :
          CliHistory[i + 1].counter = CliHistory[i].counter + 1
    /\ \A i, j \in DOMAIN CliHistory :
          i < j => /\ CliHistory[i].invoice_num # CliHistory[j].invoice_num
                   /\ CliHistory[i].counter < CliHistory[j].counter

\* C2 witness: one process has allocated three numbers in a row
C2_Witness ==
    \E k \in DOMAIN cli_issued : Len(cli_issued[k]) >= 3

\* a stored invoice keeps its number and its company, the stored invoices
\* of a tenant carry different numbers and no number is returned twice
C3_Step ==
    /\ \A pk \in DOMAIN invoices :
          /\ pk \in DOMAIN invoices'
          /\ invoices'[pk].invoice_number = invoices[pk].invoice_number
          /\ invoices'[pk].company = invoices[pk].company
    /\ \A i, j \in DOMAIN invoices' :
          (i # j /\ invoices'[i].company = invoices'[j].company)
             => invoices'[i].invoice_number # invoices'[j].invoice_number
    /\ \A t \in Tenants : \A i, j \in DOMAIN issued'[t] :
          i # j => issued'[t][i].invoice_number # issued'[t][j].invoice_number

\* C3: once an invoice has a number, no step changes it (not an edit, not a
\* status update, not a change of the prefix), and the number is not given
\* to another invoice of the tenant.
C3_NumberIsStable == [][C3_Step]_vars

\* C3 witness: an invoice that was edited and sent still carries the old
\* prefix after the tenant changed it, next to a second invoice of the tenant
C3_Witness ==
    \E i, j \in DOMAIN invoices :
        /\ i # j
        /\ invoices[i].company = invoices[j].company
        /\ invoices[i].status = "sent"
        /\ invoices[i].due_date = 20
        /\ SubSeq(invoices[i].invoice_number, 1, 3)
              # company[invoices[i].company].invoice_prefix

\* C4: the counter in config.json is one more than the counter of the
\* number just returned, so the file and the running instance are ahead of
\* every number returned, and a later process returns only greater numbers.
C4_CounterIsPersisted ==
    /\ \A i \in DOMAIN CliHistory :
          /\ CliHistory[i].stored = CliHistory[i].counter + 1
          /\ config_file # <<>>
          /\ config_file[1].invoice_counter > CliHistory[i].counter
          /\ app # <<>> => app[1].config.invoice_counter > CliHistory[i].counter
    /\ \A k, l \in DOMAIN cli_issued :
          k < l => \A i \in DOMAIN cli_issued[k], j \in DOMAIN cli_issued[l] :
                      cli_issued[l][j].counter > cli_issued[k][i].counter

\* C4 witness: a process allocated, ended, and a later process allocated
C4_Witness ==
    \E k, l \in DOMAIN cli_issued :
        k < l /\ cli_issued[k] # <<>> /\ cli_issued[l] # <<>>

\* an allocation for one tenant leaves the row and the numbers of every
\* other tenant alone, and each tenant's counters rise by one
C7_Step ==
    /\ \A t \in Tenants :
          issued'[t] # issued[t] =>
             \A u \in Tenants \ {t} :
                 /\ issued'[u] = issued[u]
                 /\ u \in DOMAIN company =>
                       (u \in DOMAIN company' /\ company'[u] = company[u])
    /\ \A t \in Tenants : \A i \in 1..(Len(issued'[t]) - 1) :
          issued'[t][i + 1].counter = issued'[t][i].counter + 1

\* C7: counters are per tenant: allocating for one tenant does not change
\* the counter or the numbers of another, and the numbers of each tenant
\* form their own consecutive sequence.
C7_TenantsAreIndependent == [][C7_Step]_vars

\* C7 witness: both tenants hold a freshly allocated number at the same
\* time, and one of them had allocated before
C7_Witness ==
    /\ \A w \in Workers : request[w].pc = "insert"
    /\ request[1].tenant # request[2].tenant
    /\ \E t \in Tenants : Len(issued[t]) >= 2
    /\ \A t \in Tenants : issued[t] # <<>>

Abs(x) == IF x < 0 THEN 0 - x ELSE x

\* the amounts in cents nearest to n/d cents
Nearest(n, d) ==
    {q \in (n \div d)..(n \div d + 1) : 2 * Abs(q * d - n) <= d}

\* C8: discount_amount = round(subtotal * discount_percentage / 100, 2),
\* subtotal_after_discount = subtotal - discount_amount, tax_amount =
\* round(subtotal_after_discount * tax_rate / 100, 2) and total =
\* subtotal_after_discount + tax_amount, for both invoice models.
C8_TotalsFollowDiscountAndTax ==
    amounts # <<>> =>
       LET a == amounts[1]
       IN  \E discount \in
                 Nearest(a.subtotal * doc.discount_percentage, 10000) :
             \E tax \in Nearest((a.subtotal - discount) * doc.tax_rate, 10000) :
                /\ a.tax_amount = tax
                /\ a.total = (a.subtotal - discount) + tax
                /\ doc.model = "dataclass" =>
                      /\ a.discount_amount = discount
                      /\ a.subtotal_after_discount = a.subtotal - discount

\* C9: the total of a line item is quantity * rate rounded to the cent, and
\* the subtotal of the invoice is the sum of the totals of its line items.
C9_ItemTotalsAndSubtotal ==
    amounts # <<>> =>
       LET a == amounts[1]
       IN  /\ DOMAIN a.item_totals = DOMAIN doc.items
           /\ \A i \in DOMAIN doc.items :
                 a.item_totals[i] \in
                    Nearest(doc.items[i].quantity * doc.items[i].rate, 100)
           /\ a.subtotal = SeqSum(a.item_totals)

\* C9 witness: a stored invoice of two items, one of them 0.33 x 9.99 with
\* the total 3.30
C9_Witness ==
    /\ amounts # <<>>
    /\ doc.model = "django"
    /\ Len(doc.items) = 2
    /\ \E i \in DOMAIN doc.items :
          doc.items[i].quantity = 33 /\ amounts[1].item_totals[i] = 330

\* the day an invoice is due, and the status values that await payment
DueDay == IF doc.model = "dataclass" THEN doc.due_date \div 24 ELSE doc.due_date

AwaitingPayment == IF doc.model = "dataclass" THEN {"pending"} ELSE {"sent"}

\* C10: is_overdue is true exactly when the due date lies before the
\* current date and the status awaits payment; it is false for draft, paid
\* and cancelled invoices whatever the date.
C10_OverdueRule ==
    amounts # <<>> =>
       /\ amounts[1].is_overdue <=>
             (DueDay < Now \div 24 /\ doc.status \in AwaitingPayment)
       /\ doc.status \in {"draft", "paid", "cancelled"}
             => ~amounts[1].is_overdue

\* C10 witness: a sent invoice that was due yesterday is overdue
C10_Witness ==
    /\ amounts # <<>>
    /\ doc.model = "django"
    /\ doc.status = "sent"
    /\ amounts[1].is_overdue

\* the outcomes that report a validation error of the client manager
ValidationErrors ==
    {"ValueError", "ValueError: Unsupported export format",
     "ValueError: Unsupported import format"}

\* C13: a call that ends with a validation error (add_client without a name
\* or an email, export_clients or import_clients with a format that is
\* neither json nor csv) leaves the stored client list as it was.
C13_ValidationErrorsKeepState ==
    [][cli_result' \in ValidationErrors => clients' = clients]_vars

\* C13 witness: an import with an unsupported format was refused while
\* clients were stored
C13_Witness ==
    /\ cli_result = "ValueError: Unsupported import format"
    /\ clients # <<>>

\* C14: no two stored clients have the same email address.
C14_EmailsAreUnique ==
    \A i, j \in DOMAIN clients :
        i # j => clients[i].email # clients[j].email

\* id is "CL-" followed by at least three decimal digits
IsClientId(id) ==
    /\ Len(id) >= 6
    /\ SubSeq(id, 1, 3) = <<"C", "L", "-">>
    /\ \A k \in 4..Len(id) : IsDigit(id[k])

\* the number after "CL-"
IdNumber(id) == DigitsValue(SubSeq(id, 4, Len(id)))

\* every stored client, active or not, keeps its id, the ids are pairwise
\* distinct, and a client that is added gets an id of the form CL-NNN with
\* a number above the numbers of all clients stored before it
C15_Step ==
    /\ \A i \in DOMAIN clients :
          i \in DOMAIN clients' /\ clients'[i].id = clients[i].id
    /\ \A i, j \in DOMAIN clients' :
          i # j => clients'[i].id # clients'[j].id
    /\ \A j \in DOMAIN clients' \ DOMAIN clients :
          /\ IsClientId(clients'[j].id)
          /\ \A i \in 1..(j - 1) :
                IdNumber(clients'[j].id) > IdNumber(clients'[i].id)

\* C15: client ids are CL-NNN, pairwise distinct and increasing: no add,
\* import, update or delete changes or removes an id, and a new id lies
\* above every id issued before, also above those of deactivated clients.
C15_ClientIdsIncrease == [][C15_Step]_vars

\* C15 witness: a client was added after the first one was deactivated and
\* updated
C15_Witness ==
    /\ Len(clients) >= 2
    /\ ~clients[1].is_active
    /\ clients[1].email = "bob@example.com"
    /\ clients[2].is_active

\* a new invoice is a draft, every stored status is one of the five choices,
\* and a step whose answer turns to failure leaves the invoices as they were
C16_Step ==
    /\ \A pk \in DOMAIN invoices' \ DOMAIN invoices :
          invoices'[pk].status = "draft"
    /\ \A pk \in DOMAIN invoices' :
          invoices'[pk].status \in {"draft", "sent", "paid", "overdue", "cancelled"}
    /\ (response' = "failure" /\ response # "failure") => invoices' = invoices

\* C16: an invoice is created with status draft, every status update leaves
\* its status among draft, sent, paid, overdue and cancelled, and an update
\* with any other value is answered with failure and changes nothing.
C16_StatusStaysValid == [][C16_Step]_vars

\* C16 witness: an update was refused after an invoice had been marked paid
C16_Witness ==
    /\ response = "failure"
    /\ \E pk \in DOMAIN invoices : invoices[pk].status = "paid"
    /\ \E pk \in DOMAIN invoices : invoices[pk].status = "draft"

(***************************************************************************)
(* Properties of the rendered document.                                    *)
(***************************************************************************)
\* a document was rendered and handed to the caller
Rendered == pdf # <<>> /\ pdf[1].ok

\* the sections of the rendered story that carry the given name
Sections(name) == SelectSeq(pdf[1].story, LAMBDA s : s.section = name)

\* the amount of the last row of the summary block
ShownTotal ==
    LET rows == Sections("summary")[1].rows
    IN  rows[Len(rows)].amount

\* Invoice.total of invoice_models for the given item totals: the discount
\* and the tax are rounded to the cent one after the other
ComputedTotals(invoice, totals) ==
    LET subtotal == SeqSum(totals)
    IN  UNION {{(subtotal - discount) + tax :
                  tax \in Nearest((subtotal - discount) * invoice.tax_rate,
                                  10000)} :
               discount \in Nearest(subtotal * invoice.discount_percentage,
                                    10000)}

\* C11: the total of the summary block of a rendered document is the total
\* of the invoice (subtotal minus discount plus tax, each rounded in turn),
\* also for an invoice with a discount.
C11_ShownTotalIsComputedTotal ==
    Rendered =>
       LET rows == Sections("items_table")[1].rows
           totals == [i \in DOMAIN rows |-> rows[i].amount]
       IN  ShownTotal \in ComputedTotals(pdf_source, totals)

\* a step in which a rendering fails leaves the companies and the invoices
\* as they were and hands no path to the caller
C12_Step ==
    (pdf = <<>> /\ pdf' # <<>> /\ ~pdf'[1].ok) =>
       /\ company' = company
       /\ invoices' = invoices
       /\ pdf'[1].filepath = <<>>

\* C12: a rendering that fails changes no invoice state (the counter of the
\* tenant, the number and the status of the invoice stay as they were) and
\* the caller receives no document path.
C12_FailedRenderingKeepsState == [][C12_Step]_vars

\* C12 witness: the rendering of a numbered invoice that was marked as sent
\* has failed
C12_Witness ==
    /\ pdf # <<>>
    /\ ~pdf[1].ok
    /\ response = "error"
    /\ \E pk \in DOMAIN invoices :
          /\ invoices[pk].invoice_number = pdf_source.invoice_number
          /\ invoices[pk].status = "sent"

\* the names of the sections of the rendered story, first to last
SectionNames == [i \in DOMAIN pdf[1].story |-> pdf[1].story[i].section]

\* C17: the sections of a rendered document are, in this order, header,
\* dates, company and client block, item table, summary, payment terms, notes
\* and footer; the notes section is there exactly when the invoice has notes,
\* the others always; both generators give this sequence.
C17_SectionOrder ==
    Rendered =>
       SectionNames =
          <<"header", "details", "company_client_info", "items_table",
            "summary", "payment_terms">>
          \o (IF pdf_source.notes # "" THEN <<"notes">> ELSE <<>>)
          \o <<"footer">>

\* C17 witness: generate_invoice_with_advanced_features has rendered an
\* invoice without notes in seven sections
C17_Witness ==
    /\ Rendered
    /\ pdf[1].generator = "generate_invoice_with_advanced_features"
    /\ pdf_source.notes = ""
    /\ Len(pdf[1].story) = 7

\* C18: the item table has the header row Description, Qty, Unit, Rate,
\* Amount and one row for every line item, in the order of the items, with
\* the description and the total of the item; the header section carries the
\* number that was assigned to the invoice.
C18_ItemRowsAndNumber ==
    Rendered =>
       LET table == Sections("items_table")[1]
           items == pdf_source.items
       IN  /\ Len(Sections("items_table")) = 1
           /\ table.header = <<"Description", "Qty", "Unit", "Rate", "Amount">>
           /\ Len(table.rows) = Len(items)
           /\ \A i \in DOMAIN items :
                 /\ table.rows[i].description = items[i].description
                 /\ table.rows[i].amount \in
                       Nearest(items[i].quantity * items[i].rate, 100)
           /\ Sections("header")[1].invoice_number = pdf_source.invoice_number
           /\ \E pk \in DOMAIN invoices :
                 invoices[pk].invoice_number
                    = Sections("header")[1].invoice_number
           /\ \E t \in Tenants : \E i \in DOMAIN issued[t] :
                 issued[t][i].invoice_number
                    = Sections("header")[1].invoice_number

\* C18 witness: the document of the second invoice of a tenant, with two
\* different line items
C18_Witness ==
    /\ Rendered
    /\ Len(pdf_source.items) = 2
    /\ pdf_source.items[1] # pdf_source.items[2]
    /\ \E t \in Tenants :
          /\ Len(issued[t]) >= 2
          /\ issued[t][2].invoice_number = pdf_source.invoice_number

TermsProvided ==
    pdf_source.payment_terms # <<>> /\ pdf_source.payment_terms[1] # ""

\* C20: the payment terms line shows the payment terms of the invoice when
\* they are provided; otherwise "due upon receipt" when the due date is not
\* after the issue date, else "due within N days", N being the days from the
\* issue date to the due date.
C20_PaymentTerms ==
    Rendered =>
       LET terms == Sections("payment_terms")[1]
           N == pdf_source.due_date - pdf_source.issue_date
       IN  IF TermsProvided
           THEN terms.text = pdf_source.payment_terms[1] /\ terms.days = <<>>
           ELSE IF pdf_source.due_date <= pdf_source.issue_date
           THEN terms.text = "Payment due upon receipt" /\ terms.days = <<>>
           ELSE /\ terms.text \in
                      {"Payment due within N days",
                       "Payment due within N days of invoice date"}
                /\ terms.days = <<N>>

\* C20 witness: an invoice without payment terms that is due on the day of
\* its issue
C20_Witness ==
    /\ Rendered
    /\ pdf_source.payment_terms = <<>>
    /\ pdf_source.due_date = pdf_source.issue_date
    /\ Sections("payment_terms")[1].text = "Payment due upon receipt"

(***************************************************************************)
(* Properties of the currency display.                                     *)
(***************************************************************************)
\* the currency signs of the fixed table; every other code gets "$"
TableSymbol(currency) ==
    CASE currency = "USD" -> <<"$">>
      [] currency = "EUR" -> <<"euro">>
      [] currency = "GBP" -> <<"pound">>
      [] currency = "CAD" -> <<"C", "$">>
      [] currency = "AUD" -> <<"A", "$">>
      [] currency = "JPY" -> <<"yen">>
      [] currency = "CNY" -> <<"yen">>
      [] currency = "INR" -> <<"rupee">>
      [] OTHER -> <<"$">>

\* the digits of a text, separators left out
DigitsOf(s) == SelectSeq(s, IsDigit)

\* body is cents written with two decimals and with a comma before every
\* group of three digits of the integer part
IsGroupedAmount(body, cents) ==
    LET n == Len(body)
        whole == SubSeq(body, 1, n - 3)
    IN  /\ n >= 4
        /\ body[n - 2] = "."
        /\ IsDigit(body[n - 1]) /\ IsDigit(body[n])
        /\ DigitsValue(SubSeq(body, n - 1, n)) = cents % 100
        /\ \A i \in DOMAIN whole :
              IF (Len(whole) - i + 1) % 4 = 0
              THEN whole[i] = "," /\ i > 1
              ELSE IsDigit(whole[i])
        /\ Len(whole) > 1 => whole[1] # "0"
        /\ DigitsValue(DigitsOf(whole)) = cents \div 100

\* C21: format_amount returns the currency symbol of the fixed table (USD $,
\* EUR euro, GBP pound, CAD C$, AUD A$, JPY yen, CNY yen, INR rupee, "$" for
\* any other code) followed by the amount with thousands separators and two
\* decimals.
C21_FormatAmount ==
    (amounts # <<>> /\ doc.model = "format_amount") =>
       LET text == amounts[1].text
           k == Len(TableSymbol(doc.currency))
       IN  /\ Len(text) > k
           /\ SubSeq(text, 1, k) = TableSymbol(doc.currency)
           /\ \E cents \in Nearest(doc.amount, 10) :
                 IsGroupedAmount(SubSeq(text, k + 1, Len(text)), cents)

(***************************************************************************)
(* Properties of the columns of the item table.                            *)
(***************************************************************************)
\* the abbreviations of the units
Abbreviations ==
    [hour |-> "hr", hours |-> "hrs", day |-> "day", days |-> "days",
     piece |-> "pc", pieces |-> "pcs", each |-> "each", item |-> "item",
     unit |-> "unit", box |-> "box", kg |-> "kg", lb |-> "lb",
     meter |-> "m", foot |-> "ft", inch |-> "in"]

\* text is the decimal writing of a whole number
IsWholeNumber(text, n) ==
    /\ text # <<>>
    /\ \A i \in DOMAIN text : IsDigit(text[i])
    /\ DigitsValue(text) = n

\* text is hundredths written with two decimals
IsTwoDecimals(text, hundredths) ==
    LET n == Len(text)
    IN  /\ n >= 4
        /\ text[n - 2] = "."
        /\ IsWholeNumber(SubSeq(text, 1, n - 3), hundredths \div 100)
        /\ IsWholeNumber(SubSeq(text, n - 1, n), hundredths % 100)

\* a unit as the forms store it: not empty, no blanks around it, and not a
\* capitalised spelling of a unit of the table
PlainUnit(u) == u \notin {"", " kg ", "Hours"}

C23_Step ==
    \A w \in Workers :
       (request[w].kind = "settings" /\ request[w].pc = "view"
          /\ request'[w].pc = "idle") =>
          company'[request[w].tenant].invoice_counter
             = company[request[w].tenant].invoice_counter

\* C23: saving the company settings never changes the invoice_counter of the
\* tenant, also when the settings request loaded the company before an
\* invoice creation incremented the counter and saves after it.
C23_SettingsKeepCounter == [][C23_Step]_vars

\* the counter a tenant starts with, and what a tenant has created: its
\* stored invoices and its invoices that hold a number and await the insert
BaseCounter(t) ==
    IF t \in DOMAIN InitCompany THEN InitCompany[t].invoice_counter ELSE 1

Created(t) ==
    Cardinality({pk \in DOMAIN invoices : invoices[pk].company = t})
    + Cardinality({w \in Workers :
                     request[w].pc = "insert" /\ request[w].tenant = t})

\* the counter of a tenant has moved once for every invoice it created; it
\* moves by one, in the step in which the first save of an invoice allocates
\* the number, and a step that changes a stored invoice leaves it alone
C24_Step ==
    /\ \A t \in DOMAIN company' :
          company'[t].invoice_counter = BaseCounter(t) + Created(t)'
    /\ \A t \in DOMAIN company :
          /\ company'[t].invoice_counter - company[t].invoice_counter
                \in {0, 1}
          /\ company'[t].invoice_counter = company[t].invoice_counter + 1
                <=> \E w \in Workers :
                       /\ request[w].pc = "view"
                       /\ request[w].tenant = t
                       /\ request'[w].pc = "insert"
    /\ (\E pk \in DOMAIN invoices : invoices'[pk] # invoices[pk]) =>
          company' = company

\* C24: the counter is incremented exactly once for every created invoice:
\* the first save of an invoice without a number allocates one number, and
\* every later save of the invoice (edit, status update) leaves the counter
\* of the tenant unchanged.
C24_OneIncrementPerInvoice == [][C24_Step]_vars

\* C24 witness: the tenant has created two invoices; one of them was edited
\* and marked as sent afterwards
C24_Witness ==
    /\ Len(invoices) >= 2
    /\ \A pk \in DOMAIN invoices : invoices[pk].company = "globex"
    /\ \E pk \in DOMAIN invoices :
          invoices[pk].status = "sent" /\ invoices[pk].due_date \notin NewDueDates
    /\ company["globex"].invoice_counter = EstablishedCounter + 2

(***************************************************************************)
(* Properties of the rendering of stored invoices.                         *)
(***************************************************************************)
\* a step in which the document of a stored invoice is rendered: when the
\* invoice is not overdue on that day, the dates section has no status row
C25_Step ==
    \A pk \in DOMAIN invoices :
       (/\ pdf = <<>> /\ pdf' # <<>> /\ Rendered'
        /\ pdf_source'.invoice_number = invoices[pk].invoice_number
        /\ ~(invoices[pk].due_date < pdf'[1].today
               /\ invoices[pk].status = "sent")) =>
          Sections("details")[1]'.status_row = <<>>

\* C25: an invoice that is not overdue by is_overdue (its status is paid,
\* draft or cancelled, or its due date has not passed) is rendered without
\* the OVERDUE marker.
C25_NoMarkerUnlessOverdue == [][C25_Step]_vars

(***************************************************************************)
(* Properties of the invoice templates.                                    *)
(***************************************************************************)
\* the default templates of a company
Defaults(rows, t) ==
    {p \in DOMAIN rows : rows[p].company = t /\ rows[p].is_default}

\* the save of a template of company t leaves the templates of the other
\* companies as they were
OthersKept(t) ==
    \A p \in DOMAIN templates :
       templates[p].company # t => templates'[p] = templates[p]

\* after a step every company has at most one default template, and a save
\* for one company leaves the templates of the others alone
C26_Step ==
    /\ \A t \in Tenants : Cardinality(Defaults(templates', t)) <= 1
    /\ \A t \in Tenants, n \in TemplateNames, d \in BOOLEAN :
          template_create(t, n, d) => OthersKept(t)
    /\ \A pk \in DOMAIN templates, d \in BOOLEAN :
          template_update(pk, d) => OthersKept(templates[pk].company)

\* C26: after any sequence of saves of invoice templates every company has
\* at most one default template, and the save of a template of one company
\* never changes is_default of a template of another company.
C26_OneDefaultPerCompany == [][C26_Step]_vars

\* C26 witness: the default of a company has moved from its first template
\* to its second while another company has a default of its own
C26_Witness ==
    /\ Len(templates) = 3
    /\ templates[1].company = templates[2].company
    /\ templates[3].company # templates[1].company
    /\ ~templates[1].is_default
    /\ templates[2].is_default
    /\ templates[3].is_default

(***************************************************************************)
(* Properties of the updates, imports and queries of the client manager.  *)
(***************************************************************************)
\* what update_client with the given id may do to the client list
UpdateFrame(client_id) ==
    /\ Len(clients') = Len(clients)
    /\ \A k \in DOMAIN clients :
          /\ clients'[k].id = clients[k].id
          /\ clients'[k].created_date = clients[k].created_date
          /\ clients[k].id # client_id => clients'[k] = clients[k]
    /\ (\A k \in DOMAIN clients : clients[k].id # client_id) =>
          clients' = clients /\ cli_result' = "not found"

\* C27: update_client never changes the id or the created_date of a client,
\* whatever keys the updates carry; it changes only the client with the
\* given id, and it returns False with the store unchanged when no client
\* has that id.
C27_UpdateFrame ==
    [][\A i \in ClientIds, u \in UpdateChoices :
          update_client(i, u) => UpdateFrame(i)]_vars

\* C27 witness: the second of two clients was updated
C27_Witness ==
    /\ cli_result = "updated"
    /\ Len(clients) = 2
    /\ clients[1].email = "ann@example.com"
    /\ clients[2].email = "bob@example.com"
    /\ clients[2].created_date = Now

\* the outcomes of an import that raised
ImportErrors ==
    {"import_clients: ValueError", "ValueError: Invalid JSON data",
     "ValueError: Unsupported import format"}

\* an import that raises leaves the client list as it was; an import that
\* returns has added as many clients as it was given entries
C29_Step ==
    \A d \in ImportData(MaxClients), f \in Formats, p \in BOOLEAN :
       import_clients(d, f, p) =>
          /\ cli_result' \in ImportErrors => clients' = clients
          /\ cli_result' = "imported" =>
                /\ Len(clients') = Len(clients) + Len(d)
                /\ SubSeq(clients', 1, Len(clients)) = clients

\* C29: import_clients is all-or-nothing: when it raises (invalid JSON, or
\* an entry without name or email anywhere in the input) the client list is
\* the same as before the call; when it returns n, n clients were added.
C29_ImportAllOrNothing == [][C29_Step]_vars

\* C30: the client records that get_client, get_client_by_email,
\* search_clients and list_clients hand out are isolated from the store:
\* changing a returned record changes no stored client.
C30_ResultsAreIsolated ==
    [][\A r \in QueryResults(clients), k \in 1..MaxClients :
          modify_result(r, k) => clients' = clients]_vars

(***************************************************************************)
(* Properties of the tenant scope of the invoice operations.               *)
(***************************************************************************)
\* the step is a request of tenant t for the detail page, an edit, a status
\* update or the document of the invoice pk
InvoiceRequest(t, pk) ==
    \/ invoice_detail_view(t, pk)
    \/ \E d \in DueDates : invoice_edit_view(t, pk, d)
    \/ \E st \in StatusInputs : invoice_status_update(t, pk, st)
    \/ \E c \in ScopeContents, build_ok \in BOOLEAN :
          invoice_pdf_view(t, pk, c, 12, build_ok)

\* a request for an invoice of another tenant is answered with not found,
\* writes no invoice and no company row and renders no document
C28_Step ==
    \A t \in Tenants, pk \in DOMAIN invoices :
        (invoices[pk].company # t /\ InvoiceRequest(t, pk)) =>
            /\ response' = "not found"
            /\ invoices' = invoices
            /\ company' = company
            /\ pdf' = pdf

\* C28: a detail, edit, PDF or status-update request of a tenant that names
\* an invoice of another tenant is rejected as not found and leaves the
\* fields and the status of that invoice unchanged.
C28_RequestsAreScoped == [][C28_Step]_vars

\* C28 witness: an invoice was changed by its own tenant, and the last
\* request, for an invoice of the other tenant, was rejected as not found
C28_Witness ==
    /\ response = "not found"
    /\ \E i, j \in DOMAIN invoices :
          /\ invoices[i].company # invoices[j].company
          /\ invoices[i].status = "sent" \/ invoices[i].due_date = 20

====
